---- MODULE Spec2Model ----
(***************************************************************************)
(* Model of the log analysis pipeline of main.py: LogAnalyzer (template    *)
(* loading, wait_for_server, ensure_model_available, _analyze_statistics,  *)
(* analyze_logs) and main.                                                 *)
(*                                                                         *)
(* Python strings are TLA+ strings; they are read character by character   *)
(* with Len and SubSeq.  The Ollama service is the environment: each call  *)
(* to it is one step whose outcome is chosen nondeterministically.         *)
(***************************************************************************)
EXTENDS Integers, Sequences, FiniteSets, TLC

VARIABLES
    max_retries,      \* Config.max_retries
    model_name,       \* Config.model_name
    template_file,    \* contents of the file at Config.prompt_template_path, or NoFile
    logs,             \* the argument of analyze_logs / _analyze_statistics
    server_models,    \* the model entries the Ollama service holds
    pc,               \* position of the caller (main, or a direct caller of one method)
    attempt,          \* loop variable of wait_for_server
    err,              \* the exception that left the running call, or NoError
    trace,            \* service calls, sleeps and method entries, in order
    prompt_template,  \* LogAnalyzer.prompt_template
    result,           \* the text returned by analyze_logs
    idx,              \* number of lines the loop of _analyze_statistics has consumed
    stats,            \* the LogStats object of the running/last _analyze_statistics
    spc,              \* position inside _analyze_statistics
    ncalls,           \* number of direct method calls made by a direct caller
    input_file        \* teach.py: the file at the path the user enters

vars == <<max_retries, model_name, template_file, logs, server_models, pc,
          attempt, err, trace, prompt_template, result, idx, stats, spc, ncalls,
          input_file>>

configVars == <<max_retries, model_name, template_file>>
statsVars == <<idx, stats, spc>>

-----------------------------------------------------------------------------
(* Bounds *)

MaxLogs == 2
MaxRetries == 3
MaxStatsCalls == 2
MaxEnsureCalls == 2
MaxAnalyzeCalls == 2

-----------------------------------------------------------------------------
(* Python string primitives *)

Min(a, b) == IF a < b THEN a ELSE b
Max(a, b) == IF a > b THEN a ELSE b

CharAt(s, i) == SubSeq(s, i, i)

\* `sub in s`
Contains(sub, s) ==
    \E i \in 1..(Len(s) - Len(sub) + 1) : SubSeq(s, i, i + Len(sub) - 1) = sub

\* s.find(ch): lowest 0-based index of ch in s, -1 when absent
FindLast(ch, s) ==
    IF Contains(ch, s)
    THEN (CHOOSE i \in 1..Len(s) :
            /\ SubSeq(s, i, i + Len(ch) - 1) = ch
            /\ \A j \in (i+1)..Len(s) : SubSeq(s, j, j + Len(ch) - 1) # ch) - 1
    ELSE -1

Find(ch, s) ==
    IF Contains(ch, s)
    THEN (CHOOSE i \in 1..Len(s) :
            /\ SubSeq(s, i, i + Len(ch) - 1) = ch
            /\ \A j \in 1..(i-1) : SubSeq(s, j, j + Len(ch) - 1) # ch) - 1
    ELSE -1

\* s[a:b] with 0-based bounds; a negative bound counts from the end
SliceBound(s, k) == IF k < 0 THEN Max(Len(s) + k, 0) ELSE Min(k, Len(s))

PySliceToEnd(s, a, b) ==
    IF SliceBound(s, b) < SliceBound(s, a)
    THEN SubSeq(s, SliceBound(s, a) + 1, Len(s))
    ELSE SubSeq(s, SliceBound(s, a) + 1, SliceBound(s, b))

PySlice(s, a, b) == SubSeq(s, SliceBound(s, a) + 1, SliceBound(s, b))

-----------------------------------------------------------------------------
(* LogStats and _analyze_statistics *)

\* LogStats(): the dataclass defaults, then __post_init__
LogStatsNew ==
    [total_logs |-> 0, errors |-> 0, warnings |-> 0, infos |-> 0,
     unique_components |-> {}]

\* the if / elif / elif chain of the loop body
ClassifyOverlapping(s, log) ==
    [s EXCEPT !.errors = IF Contains("ERROR", log) THEN @ + 1 ELSE @,
              !.warnings = IF Contains("WARNING", log) THEN @ + 1 ELSE @,
              !.infos = IF Contains("INFO", log) THEN @ + 1 ELSE @]

Classify(s, log) ==
    IF Contains("ERROR", log) THEN [s EXCEPT !.errors = @ + 1]
    ELSE IF Contains("WARNING", log) THEN [s EXCEPT !.warnings = @ + 1]
    ELSE IF Contains("INFO", log) THEN [s EXCEPT !.infos = @ + 1]
    ELSE s

\* the bracketed component of the loop body
ExtractComponentLastBracket(s, log) ==
    IF Contains("[", log) /\ Contains("]", log)
    THEN [s EXCEPT !.unique_components =
              @ \cup {PySlice(log, FindLast("[", log) + 1, Find("]", log))}]
    ELSE s

ExtractComponent(s, log) ==
    IF Contains("[", log) /\ Contains("]", log)
    THEN [s EXCEPT !.unique_components =
              @ \cup {PySlice(log, Find("[", log) + 1, Find("]", log))}]
    ELSE s

\* one iteration of `for log in logs`
LoopBody(s, log) ==
    ExtractComponent(Classify([s EXCEPT !.total_logs = @ + 1], log), log)

\* entry of _analyze_statistics(l): stats = LogStats(); stats.total_logs = len(logs)
EnterStatisticsSharedSet(l) ==
    /\ stats' = [LogStatsNew EXCEPT !.total_logs = Len(l),
                                    !.unique_components = stats.unique_components]
    /\ idx' = 0
    /\ spc' = "loop"

EnterStatistics(l) ==
    /\ stats' = [LogStatsNew EXCEPT !.total_logs = Len(l)]
    /\ idx' = 0
    /\ spc' = "loop"

StatsIter ==
    /\ spc = "loop"
    /\ idx < Len(logs)
    /\ stats' = LoopBody(stats, logs[idx + 1])
    /\ idx' = idx + 1
    /\ UNCHANGED <<configVars, input_file, logs, server_models, pc, attempt, err, trace,
                   prompt_template, result, spc, ncalls>>

StatsReturn ==
    /\ spc = "loop"
    /\ idx = Len(logs)
    /\ spc' = "returned"
    /\ UNCHANGED <<configVars, input_file, logs, server_models, pc, attempt, err, trace,
                   prompt_template, result, idx, stats, ncalls>>

-----------------------------------------------------------------------------
(* Inputs *)

NoFile == [exists |-> FALSE, text |-> ""]
NoError == [type |-> "none", msg |-> ""]
NoResult == [returned |-> FALSE, text |-> ""]
NoInputFile == [path |-> "", exists |-> FALSE, readable |-> FALSE, text |-> ""]

\* lines with every combination of the three markers and of the two brackets
LogLines ==
    { "INFO Server started",
      "ERROR Database failed",
      "WARNING High CPU",
      "error warning info",
      "[db] ERROR after WARNING",
      "[auth] WARNING no INFO",
      "[db] INFO ERROR",
      "ERROR WARNING INFO [net]",
      "[cache] cleared",
      "] INFO [x",
      "WARNING [disk",
      "a] ERROR",
      "[] INFO",
      "[a][b] ERROR",
      "[[k] INFO" }

LogInputs == UNION { [1..n -> LogLines] : n \in 0..MaxLogs }

-----------------------------------------------------------------------------
(* Events of the trace *)

Event(op, arg, res, n, models) ==
    [op |-> op, arg |-> arg, res |-> res, n |-> n, models |-> models]

ServiceOps == {"probe", "list", "pull", "generate"}

-----------------------------------------------------------------------------
(* A direct caller of _analyze_statistics *)

StatsCall(l) ==
    /\ pc = "stats_caller"
    /\ spc \in {"idle", "returned"}
    /\ ncalls < MaxStatsCalls
    /\ ncalls' = ncalls + 1
    /\ logs' = l
    /\ trace' = Append(trace, Event("summarize", IF l = <<>> THEN "empty" ELSE "lines",
                                    "enter", 0, {}))
    /\ EnterStatistics(l)
    /\ UNCHANGED <<configVars, input_file, server_models, pc, attempt, err,
                   prompt_template, result>>

InitStats ==
    /\ max_retries = 0
    /\ model_name = "llama3.1:8b"
    /\ template_file = NoFile
    /\ logs = <<>>
    /\ server_models = {}
    /\ pc = "stats_caller"
    /\ attempt = 0
    /\ err = NoError
    /\ trace = <<>>
    /\ prompt_template = ""
    /\ result = NoResult
    /\ idx = 0
    /\ stats = LogStatsNew
    /\ spc = "idle"
    /\ ncalls = 0
    /\ input_file = NoInputFile

NextStats ==
    \/ \E l \in LogInputs : StatsCall(l)
    \/ StatsIter
    \/ StatsReturn

SpecStats == InitStats /\ [][NextStats]_vars

-----------------------------------------------------------------------------
(* str.format with the single keyword argument logs=v *)

Digits == {"0", "1", "2", "3", "4", "5", "6", "7", "8", "9"}

IsDigits(name) == Len(name) > 0 /\ \A i \in 1..Len(name) : CharAt(name, i) \in Digits

Formatted(text) == [exc |-> "none", out |-> text]
FormatRaises(exc) == [exc |-> exc, out |-> ""]

\* the text x followed by the rest of the output, unless the rest raised
Emit(x, rest) == IF rest.exc = "none" THEN Formatted(x \o rest.out) ELSE rest

\* The template is scanned left to right from position i: "{{" and "}}" are
\* literal braces, "{name}" is a replacement field, a brace on its own is a
\* ValueError.  A field with an empty or numeric name asks for a positional
\* argument (IndexError, none is passed); a name other than logs is a
\* KeyError.  Fields are taken to be plain names (no conversion or format
\* specification).
RECURSIVE FormatFrom(_, _, _)
FormatFrom(t, i, v) ==
    IF i > Len(t) THEN Formatted("")
    ELSE IF CharAt(t, i) = "{" THEN
        IF i < Len(t) /\ CharAt(t, i + 1) = "{"
        THEN Emit("{", FormatFrom(t, i + 2, v))
        ELSE LET rest == SubSeq(t, i + 1, Len(t))
                 close == Find("}", rest)
                 name == SubSeq(rest, 1, close)
             IN  IF close = -1 THEN FormatRaises("ValueError")
                 ELSE IF Contains("{", name) THEN FormatRaises("ValueError")
                 ELSE IF name = "" \/ IsDigits(name) THEN FormatRaises("IndexError")
                 ELSE IF name = "logs" THEN Emit(v, FormatFrom(t, i + close + 2, v))
                 ELSE FormatRaises("KeyError")
    ELSE IF CharAt(t, i) = "}" THEN
        IF i < Len(t) /\ CharAt(t, i + 1) = "}"
        THEN Emit("}", FormatFrom(t, i + 2, v))
        ELSE FormatRaises("ValueError")
    ELSE Emit(CharAt(t, i), FormatFrom(t, i + 1, v))

Format(t, v) == FormatFrom(t, 1, v)

\* sep.join(lines)
RECURSIVE Join(_, _)
Join(lines, sep) ==
    IF Len(lines) = 0 THEN ""
    ELSE IF Len(lines) = 1 THEN lines[1]
    ELSE lines[1] \o sep \o Join(Tail(lines), sep)

-----------------------------------------------------------------------------
(* Exceptions *)

Raised(type, msg) == [type |-> type, msg |-> msg]

\* raise RuntimeError("Could not connect to Ollama server")
CouldNotConnect == Raised("RuntimeError", "Could not connect to Ollama server")

\* except Exception as e: raise RuntimeError(f"Failed to ensure model availability: {e}")
EnsureExceptUnwrapped(e) == Raised(e, "")

EnsureExcept(e) == Raised("RuntimeError", "Failed to ensure model availability: " \o e)

\* except Exception as e: raise RuntimeError(f"Failed to analyze logs: {e}")
AnalyzeExceptUnwrapped(e) == Raised(e, "")

AnalyzeExcept(e) == Raised("RuntimeError", "Failed to analyze logs: " \o e)

-----------------------------------------------------------------------------
(* LogAnalyzer.__init__ and _load_prompt_template *)

Loaded(text) == [exc |-> NoError, template |-> text]
LoadRaises(e) == [exc |-> e, template |-> ""]

\* the template is returned unless the validating format raised; KeyError
\* becomes a RuntimeError, any other exception of format leaves as it is
LoadPromptTemplate(file) ==
    IF ~file.exists
    THEN LoadRaises(Raised("RuntimeError", "Prompt template not found"))
    ELSE LET r == Format(file.text, "test")
         IN  IF r.exc = "none" THEN Loaded(file.text)
             ELSE IF r.exc = "KeyError"
             THEN LoadRaises(Raised("RuntimeError",
                                    "Invalid prompt template: missing {logs} placeholder"))
             ELSE LoadRaises(Raised(r.exc, ""))

-----------------------------------------------------------------------------
(* main: construction of the analyzer *)

\* config = Config.from_env(); analyzer = LogAnalyzer(config);
\* then analyzer.wait_for_server() is entered
ConstructLazy ==
    /\ pc = "INIT"
    /\ prompt_template' = template_file.text
    /\ pc' = "CONNECTING"
    /\ err' = err
    /\ attempt' = 0
    /\ UNCHANGED <<configVars, input_file, logs, server_models, trace, result,
                   statsVars, ncalls>>

Construct ==
    /\ pc = "INIT"
    /\ LET r == LoadPromptTemplate(template_file)
       IN  IF r.exc = NoError
           THEN /\ prompt_template' = r.template
                /\ pc' = "CONNECTING"
                /\ err' = err
           ELSE /\ prompt_template' = prompt_template
                /\ pc' = "FAILED"
                /\ err' = r.exc
    /\ attempt' = 0
    /\ UNCHANGED <<configVars, input_file, logs, server_models, trace, result, statsVars, ncalls>>

-----------------------------------------------------------------------------
(* wait_for_server *)

ProbeOutcomes == {"ok", "RequestError", "ResponseError"}

\* for attempt in range(self.config.max_retries)
RangeInclusive(a, n) == a <= n

InRange(a, n) == a < n

\* except httpx.RequestError
CaughtAny(outcome) == outcome # "ok"

Caught(outcome) == outcome = "RequestError"

\* self.client.ps() inside the try
Probe(outcome) ==
    /\ pc = "CONNECTING"
    /\ InRange(attempt, max_retries)
    /\ trace' = Append(trace, Event("probe", "", outcome, 0, {}))
    /\ IF outcome = "ok"
       THEN pc' = "READY" /\ err' = err
       ELSE IF Caught(outcome)
       THEN pc' = "BACKOFF" /\ err' = err
       ELSE pc' = "FAILED" /\ err' = Raised(outcome, "")
    /\ UNCHANGED <<configVars, input_file, logs, server_models, attempt, prompt_template,
                   result, statsVars, ncalls>>

\* time.sleep(2 ** attempt), then the next iteration
SleepLinear ==
    /\ pc = "BACKOFF"
    /\ trace' = Append(trace, Event("sleep", "", "ok", 2 * attempt + 1, {}))
    /\ attempt' = attempt + 1
    /\ pc' = "CONNECTING"
    /\ UNCHANGED <<configVars, input_file, logs, server_models, err, prompt_template,
                   result, statsVars, ncalls>>

Sleep ==
    /\ pc = "BACKOFF"
    /\ trace' = Append(trace, Event("sleep", "", "ok", 2 ^ attempt, {}))
    /\ attempt' = attempt + 1
    /\ pc' = "CONNECTING"
    /\ UNCHANGED <<configVars, input_file, logs, server_models, err, prompt_template,
                   result, statsVars, ncalls>>

\* the loop is exhausted: raise RuntimeError
GiveUpOffByOne ==
    /\ pc = "CONNECTING"
    /\ attempt > max_retries
    /\ pc' = "FAILED"
    /\ err' = CouldNotConnect
    /\ UNCHANGED <<configVars, input_file, logs, server_models, attempt, trace,
                   prompt_template, result, statsVars, ncalls>>

GiveUp ==
    /\ pc = "CONNECTING"
    /\ ~InRange(attempt, max_retries)
    /\ pc' = "FAILED"
    /\ err' = CouldNotConnect
    /\ UNCHANGED <<configVars, input_file, logs, server_models, attempt, trace,
                   prompt_template, result, statsVars, ncalls>>

-----------------------------------------------------------------------------
(* ensure_model_available *)

Named(name) == [has_name |-> TRUE, name |-> name]
Unnamed == [has_name |-> FALSE, name |-> ""]

\* m.get("name", "")
NameOf(m) == IF m.has_name THEN m.name ELSE ""

Listing(models) == [has_models |-> TRUE, models |-> models]
NoModelsKey == [has_models |-> FALSE, models |-> {}]

\* what the service can answer to list(): its models; a service without
\* models may also answer without the "models" key
ListResponses == {Listing(server_models)} \cup
                 (IF server_models = {} THEN {NoModelsKey} ELSE {})

ListOutcomes == {"ok", "ResponseError", "RequestError", "malformed"}

\* [m.get("name", "") for m in models.get("models", [])]
ExistingModelsIndexed(resp) ==
    IF resp.has_models /\ resp.models # {}
    THEN [exc |-> "none", names |-> {NameOf(m) : m \in resp.models}]
    ELSE [exc |-> "KeyError", names |-> {}]

ExistingModels(resp) ==
    [exc |-> "none",
     names |-> {NameOf(m) : m \in (IF resp.has_models THEN resp.models ELSE {})}]

\* if self.config.model_name not in existing_models
AlwaysPull(name, existing) == TRUE

NeedsPull(name, existing) == name \notin existing

\* entry of ensure_model_available
EnterEnsure ==
    /\ pc' = "PROVISIONING"
    /\ trace' = Append(trace, Event("ensure", model_name, "enter", 0, server_models))

\* main: analyzer.ensure_model_available()
MainEnsure ==
    /\ pc = "READY"
    /\ EnterEnsure
    /\ UNCHANGED <<configVars, input_file, logs, server_models, attempt, err,
                   prompt_template, result, statsVars, ncalls>>

\* models = self.client.list() and the test on existing_models
ListModels(outcome, resp) ==
    /\ pc = "PROVISIONING"
    /\ trace' = Append(trace, Event("list", "", outcome, 0,
                                    IF outcome = "ok" THEN resp.models ELSE {}))
    /\ IF outcome = "ok"
       THEN LET existing == ExistingModels(resp)
            IN  IF existing.exc # "none"
                THEN pc' = "FAILED" /\ err' = EnsureExcept(existing.exc)
                ELSE IF NeedsPull(model_name, existing.names)
                THEN pc' = "PULLING" /\ err' = err
                ELSE pc' = "PROVISIONED" /\ err' = err
       ELSE IF outcome = "malformed"
       THEN pc' = "FAILED" /\ err' = EnsureExcept("AttributeError")
       ELSE pc' = "FAILED" /\ err' = EnsureExcept(outcome)
    /\ UNCHANGED <<configVars, input_file, logs, server_models, attempt, prompt_template,
                   result, statsVars, ncalls>>

PullOutcomes == {"ok", "ResponseError", "RequestError"}

\* self.client.pull(self.config.model_name)
PullIgnoringFailure(outcome) ==
    /\ pc = "PULLING"
    /\ trace' = Append(trace, Event("pull", model_name, outcome, 0, {}))
    /\ pc' = "PROVISIONED" /\ err' = err
    /\ server_models' = IF outcome = "ok"
                        THEN server_models \cup {Named(model_name)}
                        ELSE server_models
    /\ UNCHANGED <<configVars, input_file, logs, attempt, prompt_template, result,
                   statsVars, ncalls>>

Pull(outcome) ==
    /\ pc = "PULLING"
    /\ trace' = Append(trace, Event("pull", model_name, outcome, 0, {}))
    /\ IF outcome = "ok"
       THEN /\ server_models' = server_models \cup {Named(model_name)}
            /\ pc' = "PROVISIONED"
            /\ err' = err
       ELSE /\ server_models' = server_models
            /\ pc' = "FAILED"
            /\ err' = EnsureExcept(outcome)
    /\ UNCHANGED <<configVars, input_file, logs, attempt, prompt_template, result,
                   statsVars, ncalls>>

-----------------------------------------------------------------------------
(* analyze_logs *)

\* entry of analyze_logs(l), up to the call of _analyze_statistics
EnterAnalyze(l) ==
    /\ pc' = "ANALYZING"
    /\ trace' = Append(trace, Event("analyze", prompt_template, "enter", 0, {}))
    /\ EnterStatistics(l)

\* main: analyzer.analyze_logs(SAMPLE_LOGS)
MainAnalyze ==
    /\ pc = "PROVISIONED"
    /\ EnterAnalyze(logs)
    /\ UNCHANGED <<configVars, input_file, logs, server_models, attempt, err,
                   prompt_template, result, ncalls>>

\* the f-string stats_summary
StatsSummary(s) ==
    "\nLog Statistics:\n" \o
    "Total Logs: " \o ToString(s.total_logs) \o "\n" \o
    "Errors: " \o ToString(s.errors) \o "\n" \o
    "Warnings: " \o ToString(s.warnings) \o "\n" \o
    "Info: " \o ToString(s.infos) \o "\n"

\* self.prompt_template.format(logs=formatted_logs + "\n" + stats_summary)
RenderPrompt(template, l, s) ==
    Format(template, Join(l, "\n") \o "\n" \o StatsSummary(s))

GenerateOutcomes == {"ok", "no_response_key", "ResponseError", "RequestError"}

\* from the return of _analyze_statistics to the end of analyze_logs; main
\* then prints the description
Generate(outcome) ==
    /\ pc = "ANALYZING"
    /\ spc = "returned"
    /\ LET r == RenderPrompt(prompt_template, logs, stats)
       IN  IF r.exc # "none"
           THEN /\ trace' = trace
                /\ pc' = "FAILED"
                /\ err' = AnalyzeExcept(r.exc)
                /\ result' = result
           ELSE /\ trace' = Append(trace, Event("generate", r.out, outcome, 0, {}))
                /\ IF outcome = "ok"
                   THEN /\ pc' = "DONE"
                        /\ err' = err
                        /\ result' = [returned |-> TRUE, text |-> "summary"]
                   ELSE /\ pc' = "FAILED"
                        /\ err' = AnalyzeExcept(IF outcome = "no_response_key"
                                                THEN "KeyError" ELSE outcome)
                        /\ result' = result
    /\ UNCHANGED <<configVars, input_file, logs, server_models, attempt, prompt_template,
                   statsVars, ncalls>>

-----------------------------------------------------------------------------
(* main *)

SAMPLE_LOGS ==
    << "2024-01-20 10:15:23 INFO Server started successfully",
       "2024-01-20 10:15:24 ERROR Database connection failed",
       "2024-01-20 10:15:25 WARNING High memory usage detected",
       "2024-01-20 10:15:26 INFO User login successful: user123",
       "2024-01-20 10:15:27 INFO Database connection restored",
       "2024-01-20 10:15:28 INFO Cache cleared successfully",
       "2024-01-20 10:15:29 WARNING High CPU usage: 85%",
       "2024-01-20 10:15:30 INFO User logout: user123",
       "2024-01-20 10:15:31 ERROR Failed to process payment",
       "2024-01-20 10:15:32 INFO Backup started",
       "2024-01-20 10:15:33 INFO Backup completed",
       "2024-01-20 10:15:34 WARNING High memory usage detected",
       "2024-01-20 10:15:35 INFO User login successful: user456",
       "2024-01-20 10:15:36 ERROR Database connection failed",
       "2024-01-20 10:15:37 INFO Database connection restored",
       "2024-01-20 10:15:38 INFO File upload successful: doc.pdf",
       "2024-01-20 10:15:39 WARNING System running low on disk space",
       "2024-01-20 10:15:40 INFO Scheduled maintenance started",
       "2024-01-20 10:15:41 INFO Cache update completed",
       "2024-01-20 10:15:42 ERROR Failed to send email",
       "2024-01-20 10:15:43 INFO User logout: user456",
       "2024-01-20 10:15:44 INFO Daily health check passed",
       "2024-01-20 10:15:45 WARNING High CPU usage: 90%" >>

ScenarioLogs ==
    << "2024-01-20 10:15:23 INFO Server started",
       "2024-01-20 10:15:24 ERROR Database connection failed" >>

\* the log sequences analyze_logs is given
AnalyzedLogs == {SAMPLE_LOGS, ScenarioLogs, <<>>}

File(text) == [exists |-> TRUE, text |-> text]

TemplateFiles ==
    { NoFile,
      File("Logs:\n{logs}"),
      File("Analyze {logs} and report {{json}}"),
      File("Summarize the logs."),
      File("Output {{logs}} only"),
      File("Logs: {text}"),
      File("{logs} for {name}"),
      File("Logs: {}"),
      File("{0}"),
      File("Logs: {logs"),
      File("{logs} }") }

\* Config.model_name: the default of from_env and one override; never empty
ModelNames == {"llama3.1:8b", "phi3"}

ModelEntries == {Named(m) : m \in ModelNames} \cup {Unnamed}

Init ==
    /\ max_retries \in 0..MaxRetries
    /\ model_name \in ModelNames
    /\ template_file \in TemplateFiles
    /\ logs \in AnalyzedLogs
    /\ server_models \in SUBSET ModelEntries
    /\ pc = "INIT"
    /\ attempt = 0
    /\ err = NoError
    /\ trace = <<>>
    /\ prompt_template = ""
    /\ result = NoResult
    /\ idx = 0
    /\ stats = LogStatsNew
    /\ spc = "idle"
    /\ ncalls = 0
    /\ input_file = NoInputFile

Next ==
    \/ Construct
    \/ \E o \in ProbeOutcomes : Probe(o)
    \/ Sleep
    \/ GiveUp
    \/ MainEnsure
    \/ \E o \in ListOutcomes : \E r \in ListResponses : ListModels(o, r)
    \/ \E o \in PullOutcomes : Pull(o)
    \/ MainAnalyze
    \/ StatsIter
    \/ StatsReturn
    \/ \E o \in GenerateOutcomes : Generate(o)

Spec == Init /\ [][Next]_vars

\* main on a template file that is present and valid or missing, and a
\* service that holds the configured model or no model
InitFair ==
    /\ max_retries \in 0..MaxRetries
    /\ model_name = "llama3.1:8b"
    /\ template_file \in {NoFile, File("Logs:\n{logs}")}
    /\ logs = ScenarioLogs
    /\ server_models \in {{}, {Named(model_name)}}
    /\ pc = "INIT"
    /\ attempt = 0
    /\ err = NoError
    /\ trace = <<>>
    /\ prompt_template = ""
    /\ result = NoResult
    /\ idx = 0
    /\ stats = LogStatsNew
    /\ spc = "idle"
    /\ ncalls = 0
    /\ input_file = NoInputFile

\* every service call, every sleep and every step of main returns
FairSpec == InitFair /\ [][Next]_vars /\ WF_vars(Next)

-----------------------------------------------------------------------------
(* A direct caller of ensure_model_available, calling it repeatedly on one service *)

EnsureCall ==
    /\ pc \in {"ensure_caller", "PROVISIONED", "FAILED"}
    /\ ncalls < MaxEnsureCalls
    /\ ncalls' = ncalls + 1
    /\ EnterEnsure
    /\ err' = NoError
    /\ UNCHANGED <<configVars, input_file, logs, server_models, attempt, prompt_template,
                   result, statsVars>>

InitProvision ==
    /\ max_retries = 0
    /\ model_name \in ModelNames
    /\ template_file = NoFile
    /\ logs = <<>>
    /\ server_models \in SUBSET ModelEntries
    /\ pc = "ensure_caller"
    /\ attempt = 0
    /\ err = NoError
    /\ trace = <<>>
    /\ prompt_template = ""
    /\ result = NoResult
    /\ idx = 0
    /\ stats = LogStatsNew
    /\ spc = "idle"
    /\ ncalls = 0
    /\ input_file = NoInputFile

NextProvision ==
    \/ EnsureCall
    \/ \E o \in ListOutcomes : \E r \in ListResponses : ListModels(o, r)
    \/ \E o \in PullOutcomes : Pull(o)

SpecProvision == InitProvision /\ [][NextProvision]_vars

-----------------------------------------------------------------------------
(* A direct caller of analyze_logs, which may assign analyzer.prompt_template *)
(* between two calls                                                        *)

TemplateTexts == {f.text : f \in {g \in TemplateFiles : g.exists}}

\* the files LogAnalyzer(config) can be constructed from
LoadableFiles == {f \in TemplateFiles : LoadPromptTemplate(f).exc = NoError}

AnalyzeCall(l) ==
    /\ pc \in {"analyze_caller", "DONE", "FAILED"}
    /\ ncalls < MaxAnalyzeCalls
    /\ ncalls' = ncalls + 1
    /\ logs' = l
    /\ EnterAnalyze(l)
    /\ err' = NoError
    /\ result' = NoResult
    /\ UNCHANGED <<configVars, input_file, server_models, attempt, prompt_template>>

\* analyzer.prompt_template = t
AssignTemplate(t) ==
    /\ pc \in {"analyze_caller", "DONE", "FAILED"}
    /\ ncalls < MaxAnalyzeCalls
    /\ t # prompt_template
    /\ prompt_template' = t
    /\ UNCHANGED <<configVars, input_file, logs, server_models, pc, attempt, err,
                   trace, result, statsVars, ncalls>>

InitAnalyze ==
    /\ max_retries = 0
    /\ model_name = "llama3.1:8b"
    /\ template_file \in LoadableFiles
    /\ logs = <<>>
    /\ server_models = {Named(model_name)}
    /\ pc = "analyze_caller"
    /\ attempt = 0
    /\ err = NoError
    /\ trace = <<>>
    /\ prompt_template = template_file.text
    /\ result = NoResult
    /\ idx = 0
    /\ stats = LogStatsNew
    /\ spc = "idle"
    /\ ncalls = 0
    /\ input_file = NoInputFile

NextAnalyze ==
    \/ \E l \in AnalyzedLogs : AnalyzeCall(l)
    \/ \E t \in TemplateTexts : AssignTemplate(t)
    \/ StatsIter
    \/ StatsReturn
    \/ \E o \in GenerateOutcomes : Generate(o)

SpecAnalyze == InitAnalyze /\ [][NextAnalyze]_vars

-----------------------------------------------------------------------------
(* teach.py: read_file, train_model, check_api_response, query_llama, main *)

\* s.endswith(suffix)
EndsWith(s, suffix) ==
    Len(s) >= Len(suffix) /\ SubSeq(s, Len(s) - Len(suffix) + 1, Len(s)) = suffix

\* pd.read_csv(path).to_string(): the table laid out as text; only the fact
\* that it is derived from the file matters here
DataFrameToString(text) == "   0\n0  " \o text

ReadOk(content) == [exc |-> NoError, content |-> content]
ReadRaises(e) == [exc |-> e, content |-> ""]

\* read_file(file_path)
ReadFile(f) ==
    IF ~f.exists THEN ReadRaises(Raised("FileNotFoundError", "File not found: " \o f.path))
    ELSE IF EndsWith(f.path, ".txt")
    THEN IF f.readable THEN ReadOk(f.text) ELSE ReadRaises(Raised("OSError", ""))
    ELSE IF EndsWith(f.path, ".csv")
    THEN IF f.readable THEN ReadOk(DataFrameToString(f.text))
         ELSE ReadRaises(Raised("ParserError", ""))
    ELSE ReadRaises(Raised("ValueError",
                           "Unsupported file format. Please use .txt or .csv files"))

\* how a POST and the reading of its response can end: a response with a
\* success status and a JSON body, no response at all, an error status, a
\* success status with a body that is not JSON
RequestOutcomes == {"ok", "ConnectionError", "HTTPError", "InvalidJSON"}

\* check_api_response(response, operation): raise_for_status and json()
\* raise a RequestException, which is turned into Exception
CheckApiResponseLenient(outcome, operation) == NoError

CheckApiResponse(outcome, operation) ==
    IF outcome \in {"HTTPError", "InvalidJSON"}
    THEN Raised("Exception", "API " \o operation \o " failed: " \o outcome)
    ELSE NoError

\* requests.post(...) followed by check_api_response
PostAndCheck(outcome, operation) ==
    IF outcome = "ConnectionError" THEN Raised("ConnectionError", "")
    ELSE CheckApiResponse(outcome, operation)

\* main: the path is entered and read_file is called
TeachRead ==
    /\ pc = "T_START"
    /\ LET r == ReadFile(input_file)
       IN  IF r.exc = NoError
           THEN pc' = "T_MODELFILE" /\ err' = err
           ELSE pc' = "T_EXCEPT" /\ err' = r.exc
    /\ UNCHANGED <<configVars, input_file, logs, server_models, attempt, trace,
                   prompt_template, result, statsVars, ncalls>>

\* train_model: create_modelfile(tag=tag)
TeachModelfile(outcome) ==
    /\ pc = "T_MODELFILE"
    /\ IF outcome = "ok"
       THEN pc' = "T_CREATE" /\ err' = err
       ELSE pc' = "T_EXCEPT" /\ err' = Raised(outcome, "")
    /\ UNCHANGED <<configVars, input_file, logs, server_models, attempt, trace,
                   prompt_template, result, statsVars, ncalls>>

\* train_model: the create request and its check
TeachCreate(outcome) ==
    /\ pc = "T_CREATE"
    /\ trace' = Append(trace, Event("create", "llama2:custom", outcome, 0, {}))
    /\ LET e == PostAndCheck(outcome, "model creation")
       IN  IF e = NoError
           THEN pc' = "T_TRAIN" /\ err' = err
           ELSE pc' = "T_EXCEPT" /\ err' = e
    /\ UNCHANGED <<configVars, input_file, logs, server_models, attempt,
                   prompt_template, result, statsVars, ncalls>>

\* train_model: the train request and its check, then the return to main
TeachTrain(outcome) ==
    /\ pc = "T_TRAIN"
    /\ trace' = Append(trace, Event("train", ReadFile(input_file).content, outcome, 0, {}))
    /\ LET e == PostAndCheck(outcome, "model training")
       IN  IF e = NoError
           THEN pc' = "T_QUERY" /\ err' = err
           ELSE pc' = "T_EXCEPT" /\ err' = e
    /\ UNCHANGED <<configVars, input_file, logs, server_models, attempt,
                   prompt_template, result, statsVars, ncalls>>

TestPrompts == {"What does the file say?", "Summarize it"}

QueryOutcomes == RequestOutcomes \cup {"no_response_key"}

\* main: the test prompt is entered; query_llama posts it, checks the
\* response and returns result['response'], which main prints
TeachQuery(outcome, prompt) ==
    /\ pc = "T_QUERY"
    /\ trace' = Append(trace, Event("query", prompt, outcome, 0, {}))
    /\ LET e == IF outcome = "no_response_key" THEN Raised("KeyError", "response")
                ELSE PostAndCheck(outcome, "query")
       IN  IF e = NoError
           THEN /\ pc' = "T_FINALLY"
                /\ err' = err
                /\ result' = [returned |-> TRUE, text |-> "answer"]
           ELSE /\ pc' = "T_EXCEPT"
                /\ err' = e
                /\ result' = result
    /\ UNCHANGED <<configVars, input_file, logs, server_models, attempt,
                   prompt_template, statsVars, ncalls>>

\* main: except Exception: the error is printed and logged, not raised again
TeachExcept ==
    /\ pc = "T_EXCEPT"
    /\ trace' = Append(trace, Event("log", "An error occurred during execution",
                                    err.type, 0, {}))
    /\ pc' = "T_FINALLY"
    /\ UNCHANGED <<configVars, input_file, logs, server_models, attempt, err,
                   prompt_template, result, statsVars, ncalls>>

\* main: finally: logging.info("Session ended"), then main returns
TeachFinally ==
    /\ pc = "T_FINALLY"
    /\ trace' = Append(trace, Event("log", "Session ended", "ok", 0, {}))
    /\ pc' = "T_RETURNED"
    /\ UNCHANGED <<configVars, input_file, logs, server_models, attempt, err,
                   prompt_template, result, statsVars, ncalls>>

InputFile(path, exists, readable, text) ==
    [path |-> path, exists |-> exists, readable |-> readable, text |-> text]

\* the file at the path the user enters: present or not, readable or not,
\* of a supported format or not
InputFiles ==
    { InputFile(p, e, r, t) :
        p \in {"notes.txt", "table.csv", "notes.md"},
        e \in BOOLEAN, r \in BOOLEAN, t \in {"alpha", "beta"} }

InitTeach ==
    /\ max_retries = 0
    /\ model_name = "llama2:custom"
    /\ template_file = NoFile
    /\ logs = <<>>
    /\ server_models = {}
    /\ pc = "T_START"
    /\ attempt = 0
    /\ err = NoError
    /\ trace = <<>>
    /\ prompt_template = ""
    /\ result = NoResult
    /\ idx = 0
    /\ stats = LogStatsNew
    /\ spc = "idle"
    /\ ncalls = 0
    /\ input_file \in InputFiles

NextTeach ==
    \/ TeachRead
    \/ \E o \in {"ok", "IOError"} : TeachModelfile(o)
    \/ \E o \in RequestOutcomes : TeachCreate(o)
    \/ \E o \in RequestOutcomes : TeachTrain(o)
    \/ \E o \in QueryOutcomes : \E p \in TestPrompts : TeachQuery(o, p)
    \/ TeachExcept
    \/ TeachFinally

SpecTeach == InitTeach /\ [][NextTeach]_vars

-----------------------------------------------------------------------------
(* Properties of _analyze_statistics *)

\* the lines consumed so far by the running/last call
Consumed == 1..idx

InStats == spc \in {"loop", "returned"}

\* C1: for every sequence of log lines, the statistics returned by
\* _analyze_statistics have total_logs equal to the number of lines.
TotalEqualsLen == spc = "returned" => stats.total_logs = Len(logs)

HasError(log) == Contains("ERROR", log)
HasWarning(log) == Contains("WARNING", log)
HasInfo(log) == Contains("INFO", log)

\* C6: severity classification is first-match-wins in the order ERROR,
\* WARNING, INFO: among the lines consumed, errors counts exactly those that
\* contain "ERROR", warnings those that contain "WARNING" and not "ERROR",
\* infos those that contain "INFO" and neither of the other two; so a line
\* with no marker is counted nowhere and no line is counted twice.
FirstMatchWins ==
    InStats =>
      /\ stats.errors = Cardinality({i \in Consumed : HasError(logs[i])})
      /\ stats.warnings =
            Cardinality({i \in Consumed : HasWarning(logs[i]) /\ ~HasError(logs[i])})
      /\ stats.infos =
            Cardinality({i \in Consumed :
                           HasInfo(logs[i]) /\ ~HasError(logs[i]) /\ ~HasWarning(logs[i])})
      /\ stats.errors + stats.warnings + stats.infos <= idx

\* a consumed line with two markers was counted once, under the first of them
FirstMatchWinsWitness ==
    /\ spc = "returned"
    /\ Len(logs) = 1
    /\ HasError(logs[1]) /\ HasWarning(logs[1]) /\ HasInfo(logs[1])
    /\ stats.errors = 1 /\ stats.warnings = 0 /\ stats.infos = 0

\* c is the text strictly between the first '[' and the first ']' of line:
\* the characters at the positions after the one and before the other
IsBetweenFirstBrackets(c, line) ==
    \E i, j \in 1..Len(line) :
        /\ CharAt(line, i) = "[" /\ \A k \in 1..(i-1) : CharAt(line, k) # "["
        /\ CharAt(line, j) = "]" /\ \A k \in 1..(j-1) : CharAt(line, k) # "]"
        /\ Len(c) = Cardinality({p \in 1..Len(line) : i < p /\ p < j})
        /\ \A p \in 1..Len(c) : CharAt(c, p) = CharAt(line, i + p)

HasBothBrackets(line) ==
    (\E i \in 1..Len(line) : CharAt(line, i) = "[") /\
    (\E j \in 1..Len(line) : CharAt(line, j) = "]")

\* C9: the component set is exactly the set of texts strictly between the
\* first '[' and the first ']' of the consumed lines that contain both
\* brackets, whatever their severity; a line lacking a bracket adds nothing.
ComponentsAreBracketed ==
    InStats =>
      /\ \A i \in Consumed :
            HasBothBrackets(logs[i]) =>
              \E c \in stats.unique_components : IsBetweenFirstBrackets(c, logs[i])
      /\ \A c \in stats.unique_components :
            \E i \in Consumed :
              HasBothBrackets(logs[i]) /\ IsBetweenFirstBrackets(c, logs[i])

\* a line with one bracket only, then an ERROR line with two bracket pairs
ComponentsWitness ==
    /\ spc = "returned"
    /\ logs = <<"WARNING [disk", "[a][b] ERROR">>
    /\ stats.unique_components = {"a"}

-----------------------------------------------------------------------------
(* Properties of the pipeline *)

\* positions of the trace that hold an event of the given kind
Ops(op) == {i \in 1..Len(trace) : trace[i].op = op}

IsOk(i) == trace[i].res = "ok"

\* the analyzer could not be constructed from template_file
ConstructionRaises == LoadPromptTemplate(template_file).exc # NoError

\* wait_for_server has returned / has raised
WaitReturned == pc = "READY" \/ Ops("ensure") # {}
WaitRaised == pc = "FAILED" /\ ~ConstructionRaises /\ Ops("ensure") = {}

\* C2: with max_retries = N, if every probe fails with a connection error
\* then exactly N probes are made and wait_for_server fails with the
\* could-not-connect error; if a probe succeeds, it is the last probe, it is
\* at most the N-th, all probes before it failed with a connection error,
\* and wait_for_server returns.
RetryBudget ==
    LET probes == Ops("probe") IN
    /\ ((WaitReturned \/ WaitRaised) /\ \A i \in probes : trace[i].res = "RequestError")
         => /\ Cardinality(probes) = max_retries
            /\ pc = "FAILED"
            /\ err = CouldNotConnect
    /\ \A i \in probes :
         IsOk(i) => /\ \A j \in probes : j <= i
                    /\ \A j \in probes : j < i => trace[j].res = "RequestError"
                    /\ Cardinality(probes) <= max_retries
                    /\ WaitReturned
                    /\ err = NoError \/ Ops("ensure") # {}

\* two connection failures, then the third and last allowed probe succeeds
RetryBudgetWitness ==
    /\ max_retries = 3
    /\ pc = "READY"
    /\ Cardinality(Ops("probe")) = 3
    /\ trace[1].res = "RequestError"
    /\ IsOk(Len(trace))

\* C8: a probe that fails with an error other than a connection error is
\* the last event of the run (no further probe, no sleep), and its error
\* reaches the caller as it is, which is not the could-not-connect error.
OtherProbeErrorNotRetried ==
    \A i \in Ops("probe") :
        trace[i].res \notin {"ok", "RequestError"}
          => /\ i = Len(trace)
             /\ pc = "FAILED"
             /\ err.type = trace[i].res
             /\ err # CouldNotConnect
             /\ err.type # CouldNotConnect.type

\* a connection failure and its sleep, then a probe failing otherwise
OtherProbeErrorWitness ==
    /\ Len(trace) = 3
    /\ trace[1].op = "probe" /\ trace[1].res = "RequestError"
    /\ trace[2].op = "sleep"
    /\ trace[3].op = "probe" /\ trace[3].res = "ResponseError"
    /\ pc = "FAILED"
    /\ attempt < max_retries

\* the names carried by the entries of a listing
NamesIn(models) == {m.name : m \in {x \in models : x.has_name}}

ListedPresent(i) ==
    trace[i].op = "list" /\ IsOk(i) /\ model_name \in NamesIn(trace[i].models)

ListedAbsent(i) ==
    trace[i].op = "list" /\ IsOk(i) /\ model_name \notin NamesIn(trace[i].models)

\* the call of a stage failed at event i
FailedAt(i) ==
    \/ trace[i].op = "probe" /\ trace[i].res \notin {"ok", "RequestError"}
    \/ trace[i].op \in {"list", "pull", "generate"} /\ ~IsOk(i)

TraceOrdered ==
    \A i \in 1..Len(trace) :
        /\ trace[i].op \in {"probe", "sleep"}
             => \A j \in 1..(i-1) : trace[j].op \in {"probe", "sleep"}
        /\ trace[i].op \in {"ensure", "list", "pull"}
             => /\ \E j \in 1..(i-1) : trace[j].op = "probe" /\ IsOk(j)
                /\ \A j \in 1..(i-1) : trace[j].op # "generate"
        /\ trace[i].op = "list" => \A j \in 1..(i-1) : trace[j].op \notin {"list", "pull"}
        /\ trace[i].op = "pull" => ListedAbsent(i - 1)
        /\ trace[i].op = "generate"
             => /\ \E j \in 1..(i-1) : ListedPresent(j) \/ (trace[j].op = "pull" /\ IsOk(j))
                /\ \A j \in 1..(i-1) : trace[j].op # "generate"
        /\ FailedAt(i) => i = Len(trace) /\ pc = "FAILED"

\* C5: main runs readiness, then provisioning, then analysis: list and pull
\* come only after a successful probe, generate only after a successful
\* provisioning, no stage is entered twice, a failed call is the last event,
\* and once main has failed it stays failed and issues nothing more.
StagesInOrder ==
    /\ []TraceOrdered
    /\ [][pc = "FAILED" => pc' = "FAILED" /\ trace' = trace]_vars

\* readiness after a retry, a listing without the model, then a failed pull
StagesInOrderWitness ==
    /\ pc = "FAILED"
    /\ Len(trace) = 6
    /\ trace[1].op = "probe" /\ trace[2].op = "sleep"
    /\ trace[3].op = "probe" /\ IsOk(3)
    /\ trace[5].op = "list"
    /\ trace[6].op = "pull" /\ ~IsOk(6)

LacksLogsPlaceholder(t) == ~Contains("{logs}", t)

\* C7: a template without the logs placeholder is always rejected: the
\* analyzer is never constructed from it and nothing is sent to generate.
TemplateWithoutLogsRejected ==
    (template_file.exists /\ LacksLogsPlaceholder(template_file.text))
      => /\ pc \in {"INIT", "FAILED"}
         /\ Ops("generate") = {}

-----------------------------------------------------------------------------
(* Properties of ensure_model_available *)

\* event i is the last one of its call of ensure_model_available
EndsCall(i) == i < Len(trace) => trace[i + 1].op = "ensure"

\* event i completes a successful call
Succeeds(i) == ListedPresent(i) \/ (trace[i].op = "pull" /\ IsOk(i))

\* C3: when the listing holds the configured model, the call returns
\* success with no pull and with the models of the service as they were on
\* entry; and no pull is ever issued after a successful call.
PresentModelNotPulled ==
    /\ \A i \in 1..Len(trace) :
         ListedPresent(i)
           => /\ EndsCall(i)
              /\ trace[i - 1].op = "ensure"
              /\ IF i = Len(trace)
                 THEN pc = "PROVISIONED" /\ err = NoError
                      /\ server_models = trace[i - 1].models
                 ELSE trace[i + 1].models = trace[i - 1].models
    /\ \A j \in Ops("pull") : \A i \in 1..(j-1) : ~Succeeds(i)

\* a first call pulls the model, a second call finds it and pulls nothing
PresentModelWitness ==
    /\ Len(trace) = 5
    /\ trace[3].op = "pull" /\ IsOk(3)
    /\ trace[4].op = "ensure"
    /\ ListedPresent(5)
    /\ pc = "PROVISIONED"

\* C4: when the listing does not hold the configured model (also when it is
\* empty or has no models key), the call pulls that model exactly once,
\* right after the listing, and returns success if the pull succeeds; the
\* listing itself never makes the call fail.
AbsentModelPulledOnce ==
    /\ \A i \in 1..Len(trace) :
         ListedAbsent(i)
           => IF i = Len(trace)
              THEN pc = "PULLING"
              ELSE /\ trace[i + 1].op = "pull"
                   /\ trace[i + 1].arg = model_name
                   /\ EndsCall(i + 1)
                   /\ (i + 1 = Len(trace) /\ IsOk(i + 1))
                        => /\ pc = "PROVISIONED"
                           /\ err = NoError
                           /\ Named(model_name) \in server_models
    /\ \A j \in Ops("pull") : j > 1 /\ ListedAbsent(j - 1)

\* an empty listing, then the pull, then success
AbsentModelWitness ==
    /\ Len(trace) = 3
    /\ trace[1].models = {}
    /\ ListedAbsent(2) /\ trace[2].models = {}
    /\ trace[3].op = "pull" /\ IsOk(3)
    /\ pc = "PROVISIONED"

IsProvisioningError(e) ==
    /\ e.type = "RuntimeError"
    /\ SubSeq(e.msg, 1, 36) = "Failed to ensure model availability:"

\* C10: a failure of the listing or of the pull ends the call with the
\* provisioning error and nothing is retried: a call lists at most once and
\* pulls at most once, and a failed listing is followed by no pull.
ProvisioningFailureNotRetried ==
    /\ \A i \in 1..Len(trace) :
         (trace[i].op \in {"list", "pull"} /\ ~IsOk(i))
           => /\ EndsCall(i)
              /\ i = Len(trace) => pc = "FAILED" /\ IsProvisioningError(err)
    /\ \A op \in {"list", "pull"} : \A i, j \in Ops(op) :
         i < j => \E k \in Ops("ensure") : i < k /\ k < j
    /\ \A j \in Ops("pull") : trace[j - 1].op = "list" /\ IsOk(j - 1)

\* the listing succeeds and the pull after it fails
ProvisioningFailureWitness ==
    /\ Len(trace) = 3
    /\ ListedAbsent(2)
    /\ trace[3].op = "pull" /\ trace[3].res = "ResponseError"
    /\ pc = "FAILED"
    /\ IsProvisioningError(err)

-----------------------------------------------------------------------------
(* Properties of analyze_logs *)

IsAnalysisError(e) ==
    /\ e.type = "RuntimeError"
    /\ SubSeq(e.msg, 1, 24) = "Failed to analyze logs: "

\* format raises on template t whatever the value of logs
SubstitutionFails(t) == Format(t, "test").exc # "none"

\* event i is the last one of its call of analyze_logs
EndsAnalyze(i) == i < Len(trace) => trace[i + 1].op = "analyze"

\* C11: a failure of the substitution, of generate or of the extraction of
\* the text ends analyze_logs with the analysis error and without a result
\* text; a call issues generate at most once, and not at all when the
\* substitution fails.
AnalysisFailureReported ==
    /\ \A i \in Ops("generate") :
         ~IsOk(i) => /\ EndsAnalyze(i)
                     /\ i = Len(trace)
                          => pc = "FAILED" /\ IsAnalysisError(err) /\ ~result.returned
    /\ \A i \in Ops("analyze") :
         SubstitutionFails(trace[i].arg)
           => /\ EndsAnalyze(i)
              /\ (i = Len(trace) /\ pc # "ANALYZING")
                   => pc = "FAILED" /\ IsAnalysisError(err) /\ ~result.returned
    /\ \A i, j \in Ops("generate") :
         i < j => \E k \in Ops("analyze") : i < k /\ k < j
    /\ result.returned => trace[Len(trace)].op = "generate" /\ IsOk(Len(trace))

\* a first call whose generate fails, then a call on a template that was
\* assigned a field the format has no value for
AnalysisFailureWitness ==
    /\ Len(trace) = 3
    /\ trace[2].op = "generate" /\ trace[2].res = "no_response_key"
    /\ trace[3].op = "analyze" /\ SubstitutionFails(trace[3].arg)
    /\ logs # <<>>
    /\ pc = "FAILED"
    /\ IsAnalysisError(err)

-----------------------------------------------------------------------------
(* Properties of the prompt and of the backoff *)

\* t has a replacement field named logs (not the escaped text "{{logs}}")
HasLogsField(t) ==
    \E i \in 1..(Len(t) - 5) :
        SubSeq(t, i, i + 5) = "{logs}" /\ (i = 1 \/ CharAt(t, i - 1) # "{")

\* the statistics block for the given counts
StatisticsBlock(total, errors, warnings, infos) ==
    "Total Logs: " \o ToString(total) \o "\n" \o
    "Errors: " \o ToString(errors) \o "\n" \o
    "Warnings: " \o ToString(warnings) \o "\n" \o
    "Info: " \o ToString(infos) \o "\n"

\* the statistics of the lines l: their number and the first-match counts
ExpectedBlock(l) ==
    StatisticsBlock(
        Len(l),
        Cardinality({i \in 1..Len(l) : HasError(l[i])}),
        Cardinality({i \in 1..Len(l) : HasWarning(l[i]) /\ ~HasError(l[i])}),
        Cardinality({i \in 1..Len(l) :
                       HasInfo(l[i]) /\ ~HasError(l[i]) /\ ~HasWarning(l[i])}))

\* C12: for a template whose placeholder is logs, the prompt given to
\* generate contains every log line and the statistics block with the
\* total, error, warning and info counts of those lines, and no placeholder
\* is left in it; for the two-line scenario the block reads total 2,
\* errors 1, warnings 0, infos 1.
PromptCarriesLogsAndStatistics ==
    \A i \in Ops("generate") :
        HasLogsField(prompt_template)
          => /\ \A k \in 1..Len(logs) : Contains(logs[k], trace[i].arg)
             /\ Contains(ExpectedBlock(logs), trace[i].arg)
             /\ ~Contains("{logs}", trace[i].arg)
             /\ logs = ScenarioLogs
                  => Contains(StatisticsBlock(2, 1, 0, 1), trace[i].arg)

\* number of probes among the first i events
ProbesUpTo(i) == Cardinality({j \in Ops("probe") : j <= i})

\* C13: the delay slept after the failed attempt with zero-based index i is
\* 2^i, and a delay is slept only between a failed probe and the retry that
\* follows it.
BackoffOnlyBeforeRetry ==
    \A i \in Ops("sleep") :
        /\ i > 1
        /\ trace[i - 1].op = "probe" /\ trace[i - 1].res = "RequestError"
        /\ trace[i].n = 2 ^ (ProbesUpTo(i) - 1)
        /\ i < Len(trace) => trace[i + 1].op = "probe"
        /\ i = Len(trace) => pc # "FAILED"

-----------------------------------------------------------------------------
(* Further properties of _analyze_statistics *)

\* C14: summarizing the empty sequence yields total 0, errors 0, warnings 0,
\* infos 0 and no component, also after an earlier call on a non-empty
\* sequence.
EmptySummaryIsZero ==
    (spc = "returned" /\ logs = <<>>)
      => /\ stats.total_logs = 0
         /\ stats.errors = 0
         /\ stats.warnings = 0
         /\ stats.infos = 0
         /\ stats.unique_components = {}

\* the empty sequence summarized after a non-empty one
EmptySummaryWitness ==
    /\ Len(trace) = 2
    /\ trace[1].op = "summarize" /\ trace[1].arg = "lines"
    /\ trace[2].op = "summarize" /\ trace[2].arg = "empty"
    /\ spc = "returned"
    /\ stats.total_logs = 0 /\ stats.unique_components = {}

HasNoMarker(log) == ~HasError(log) /\ ~HasWarning(log) /\ ~HasInfo(log)

\* C15: while lines are summarized and in the result, errors, warnings and
\* infos are each at most the total and so is their sum; in the result the
\* difference is the number of lines with none of the three markers.
CountsWithinTotal ==
    InStats =>
      /\ stats.errors <= stats.total_logs
      /\ stats.warnings <= stats.total_logs
      /\ stats.infos <= stats.total_logs
      /\ stats.errors + stats.warnings + stats.infos <= stats.total_logs
      /\ spc = "returned"
           => stats.total_logs - (stats.errors + stats.warnings + stats.infos)
                = Cardinality({i \in 1..Len(logs) : HasNoMarker(logs[i])})

\* the first ']' of line comes before its first '['
ClosesBeforeOpening(line) ==
    \E j \in 1..Len(line) :
        /\ CharAt(line, j) = "]"
        /\ \A k \in 1..j : CharAt(line, k) # "["
        /\ \E k \in (j+1)..Len(line) : CharAt(line, k) = "["

\* C17: a line with both brackets whose first ']' comes before its first
\* '[' adds the empty string to the component set, and nothing else.
ReversedBracketsAddEmpty ==
    InStats =>
      /\ \A i \in Consumed :
           ClosesBeforeOpening(logs[i]) => "" \in stats.unique_components
      /\ (idx > 0 /\ \A i \in Consumed : ClosesBeforeOpening(logs[i]))
           => stats.unique_components = {""}

ReversedBracketsWitness ==
    /\ spc = "returned"
    /\ logs = <<"] INFO [x">>
    /\ stats.unique_components = {""}
    /\ stats.infos = 1

-----------------------------------------------------------------------------
(* Further properties of the pipeline *)

\* the time slept during the first i events
RECURSIVE SleptUpTo(_)
SleptUpTo(i) ==
    IF i = 0 THEN 0
    ELSE SleptUpTo(i - 1) + (IF trace[i].op = "sleep" THEN trace[i].n ELSE 0)

\* C16: a sleep follows every probe that failed with a connection error,
\* the last one of the budget included: when wait_for_server gives up with
\* max_retries = N >= 1 it has slept N times, 2^N - 1 time units in all,
\* and its last event is the sleep of 2^(N-1) units, with no probe after it.
SleepAfterEveryFailure ==
    /\ \A i \in Ops("probe") :
         trace[i].res = "RequestError"
           => IF i = Len(trace) THEN pc = "BACKOFF" ELSE trace[i + 1].op = "sleep"
    /\ (pc = "FAILED" /\ err = CouldNotConnect /\ max_retries >= 1)
         => /\ Cardinality(Ops("sleep")) = max_retries
            /\ SleptUpTo(Len(trace)) = 2 ^ max_retries - 1
            /\ trace[Len(trace)].op = "sleep"
            /\ trace[Len(trace)].n = 2 ^ (max_retries - 1)

\* three failed probes, three sleeps, then the failure
SleepAfterEveryFailureWitness ==
    /\ max_retries = 3
    /\ pc = "FAILED"
    /\ err = CouldNotConnect
    /\ Len(trace) = 6
    /\ trace[6].op = "sleep" /\ trace[6].n = 4

Terminal == pc \in {"DONE", "FAILED"}

\* C18: main always ends, either done with a result or failed with an
\* error, and stays there; with max_retries = 0 it fails without a probe.
MainTerminates ==
    /\ <>Terminal
    /\ [][Terminal => pc' = pc]_vars
    /\ [](pc = "DONE" => result.returned /\ err = NoError)
    /\ [](pc = "FAILED" => ~result.returned /\ err # NoError)
    /\ [](max_retries = 0 => Ops("probe") = {} /\ pc \in {"INIT", "CONNECTING", "FAILED"})
    /\ (max_retries = 0) ~> (pc = "FAILED")

MainTerminatesWitness ==
    /\ max_retries = 0
    /\ ~ConstructionRaises
    /\ pc = "FAILED"
    /\ err = CouldNotConnect
    /\ trace = <<>>

\* C19: the template is loaded and validated before any service call: when
\* the file is missing or the validation raises, main fails with an empty
\* trace; and whenever a call has been made the template is loaded.
TemplateLoadedFirst ==
    /\ (~template_file.exists \/ SubstitutionFails(template_file.text))
         => /\ pc \in {"INIT", "FAILED"}
            /\ trace = <<>>
            /\ pc = "FAILED" => err # NoError
    /\ trace # <<>> => template_file.exists /\ prompt_template = template_file.text

\* the file is missing: failed, nothing was called
TemplateLoadedFirstWitness ==
    /\ ~template_file.exists
    /\ pc = "FAILED"
    /\ err.msg = "Prompt template not found"
    /\ trace = <<>>

-----------------------------------------------------------------------------
(* Properties of teach.py *)

Requests == {"create", "train", "query"}

\* C20: the requests go create, train, query: train only after a
\* successful create, query only after a successful create and train; after
\* a failure (of the file read, create, train or query) no request follows;
\* main never stops anywhere but at its normal return, and has then logged
\* the error it caught, if any, and the session end last.
TeachInOrder ==
    /\ \A i \in Ops("train") : i = 2 /\ trace[1].op = "create" /\ IsOk(1)
    /\ \A i \in Ops("query") :
         i = 3 /\ trace[1].op = "create" /\ IsOk(1) /\ trace[2].op = "train" /\ IsOk(2)
    /\ \A i \in Ops("create") : i = 1
    /\ \A i \in 1..Len(trace) :
         (trace[i].op \in Requests /\ ~IsOk(i))
           => \A j \in (i+1)..Len(trace) : trace[j].op = "log"
    /\ ReadFile(input_file).exc # NoError
         => \A i \in 1..Len(trace) : trace[i].op = "log"
    /\ ~ENABLED NextTeach => pc = "T_RETURNED"
    /\ pc = "T_RETURNED"
         => /\ trace[Len(trace)].op = "log" /\ trace[Len(trace)].arg = "Session ended"
            /\ err # NoError
                 => /\ ~result.returned
                    /\ trace[Len(trace) - 1].op = "log"
                    /\ trace[Len(trace) - 1].res = err.type

\* the create request succeeds, the train request gets an error status:
\* no query, the error is caught and the session end is logged
TeachInOrderWitness ==
    /\ pc = "T_RETURNED"
    /\ Len(trace) = 4
    /\ trace[1].op = "create" /\ IsOk(1)
    /\ trace[2].op = "train" /\ trace[2].res = "HTTPError"
    /\ trace[4].arg = "Session ended"
    /\ err.type = "Exception"

====
